---- MODULE Spec2Model ----
(***************************************************************************)
(* Flight-state lifecycle of backend/app.py: the three MongoDB collections *)
(* (flights, flight_tracking, flight_logs) and the handlers update_flight, *)
(* complete_flight and auto_complete_landed_flights.                       *)
(*                                                                         *)
(* JSON / Python values are records [k, n, s]: k is the kind, n the        *)
(* numeric payload, s the string payload.  Units of n: latitude and        *)
(* longitude in 1e-4 degree, distances in decimetres, route progress in    *)
(* 1e-2 percent, instants in seconds, durations in 1e-2 minute.            *)
(* A document (dict) is a function from field names to values.             *)
(***************************************************************************)
EXTENDS Integers, Sequences, FiniteSets, TLC

VARIABLES flights, tracking, logs, nextId, clock, nreports, accepted, raced, req, resp, pc, local

vars == <<flights, tracking, logs, nextId, clock, nreports, accepted, raced, req, resp, pc, local>>

store == <<flights, tracking, logs>>

(* ---------------- bounds ---------------- *)

MaxReports == 2

MaxReportsV == 1

MaxReportsI == 2

(* ---------------- values ---------------- *)

Num(n) == [k |-> "num", n |-> n, s |-> ""]

NumStr(n) == [k |-> "numstr", n |-> n, s |-> ""]

Str(x) == [k |-> "str", n |-> 0, s |-> x]

Iso(t) == [k |-> "iso", n |-> t, s |-> ""]

IsoZ(t) == [k |-> "isoz", n |-> t, s |-> "Z"]

Dt(t) == [k |-> "dt", n |-> t, s |-> ""]

Oid(n) == [k |-> "oid", n |-> n, s |-> ""]

Null == [k |-> "null", n |-> 0, s |-> ""]

NaN == [k |-> "nan", n |-> 0, s |-> ""]

List == [k |-> "list", n |-> 1, s |-> ""]

True == [k |-> "bool", n |-> 1, s |-> ""]

NoDoc == [f \in {} |-> Null]

Merge(a, b) == [f \in (DOMAIN a) \cup (DOMAIN b) |-> IF f \in DOMAIN b THEN b[f] ELSE a[f]]

Has(d, f) == f \in DOMAIN d

Get(d, f) == IF f \in DOMAIN d THEN d[f] ELSE Null

(* ---------------- airports and geometry ---------------- *)

AIRPORTS == [JFK |-> [lat |-> 406413, lon |-> -737781],
             LAX |-> [lat |-> 339416, lon |-> -1184085]]

MID == [lat |-> 372915, lon |-> -960933]

NEAR == [lat |-> 342604, lon |-> -1162850]

\* the positions the request bodies use
Points == <<AIRPORTS.JFK, MID, NEAR, AIRPORTS.LAX>>

\* R * c of lines 31-38 on Points, in decimetres
Haversine(p, q) ==
    LET a == CHOOSE i \in 1..4 : Points[i] = p
        b == CHOOSE i \in 1..4 : Points[i] = q
        T == << <<0, 19593278, 37811696, 39743362>>,
                <<19593278, 0, 18487544, 20462517>>,
                <<37811696, 18487544, 0, 1987048>>,
                <<39743362, 20462517, 1987048, 0>> >>
    IN T[a][b]

calculate_distance(lat1, lon1, lat2, lon2) ==
    Haversine([lat |-> lat1, lon |-> lon1], [lat |-> lat2, lon |-> lon2])

RECURSIVE Digits(_, _, _, _)
Digits(r, total, q, i) ==
    IF i = 0 THEN IF 2 * r >= total THEN q + 1 ELSE q
    ELSE Digits((r * 10) % total, total, q * 10 + ((r * 10) \div total), i - 1)

Min(a, b) == IF a < b THEN a ELSE b

Max(a, b) == IF a > b THEN a ELSE b

Truthy(v) == ~(v.k = "null" \/ (v.k = "str" /\ v.s = "") \/ (v.k = "num" /\ v.n = 0))

Hashable(v) == v.k # "list"

InAirports(v) == v.k = "str" /\ v.s \in DOMAIN AIRPORTS

calculate_route_progress_nozero(current_lat, current_lon, source, destination) ==
    IF ~Truthy(source) \/ ~Truthy(destination) THEN [err |-> FALSE, p |-> 0]
    ELSE IF ~Hashable(source) THEN [err |-> TRUE, p |-> 0]
    ELSE IF ~InAirports(source) THEN [err |-> FALSE, p |-> 0]
    ELSE IF ~Hashable(destination) THEN [err |-> TRUE, p |-> 0]
    ELSE IF ~InAirports(destination) THEN [err |-> FALSE, p |-> 0]
    ELSE LET s == AIRPORTS[source.s]
             d == AIRPORTS[destination.s]
             total_distance == calculate_distance(s.lat, s.lon, d.lat, d.lon)
             current_to_dest == calculate_distance(current_lat, current_lon, d.lat, d.lon)
         IN IF total_distance = 0 THEN [err |-> FALSE, p |-> 0]
            ELSE IF total_distance - current_to_dest < 0 THEN [err |-> FALSE, p |-> 0]
            ELSE [err |-> FALSE,
                  p |-> Max(0, Min(10000, Digits(total_distance - current_to_dest, total_distance, 0, 4)))]

calculate_route_progress(current_lat, current_lon, source, destination) ==
    IF ~Truthy(source) \/ ~Truthy(destination) THEN [err |-> FALSE, p |-> 0]
    ELSE IF ~Hashable(source) THEN [err |-> TRUE, p |-> 0]
    ELSE IF ~InAirports(source) THEN [err |-> FALSE, p |-> 0]
    ELSE IF ~Hashable(destination) THEN [err |-> TRUE, p |-> 0]
    ELSE IF ~InAirports(destination) THEN [err |-> FALSE, p |-> 0]
    ELSE LET s == AIRPORTS[source.s]
             d == AIRPORTS[destination.s]
             total_distance == calculate_distance(s.lat, s.lon, d.lat, d.lon)
             current_to_dest == calculate_distance(current_lat, current_lon, d.lat, d.lon)
         IN IF total_distance = 0 THEN [err |-> FALSE, p |-> 10000]
            ELSE IF total_distance - current_to_dest < 0 THEN [err |-> FALSE, p |-> 0]
            ELSE [err |-> FALSE,
                  p |-> Max(0, Min(10000, Digits(total_distance - current_to_dest, total_distance, 0, 4)))]

(* ---------------- request validation (update_flight, lines 92-124) ---------------- *)

required_fields == {"flight_id", "latitude", "longitude", "altitude", "speed", "heading", "status", "timestamp"}

numeric_fields == <<"latitude", "longitude", "altitude", "speed", "heading">>

optional_fields == {"aircraft_type", "airline", "departure", "arrival", "route", "destination", "source"}

\* float(x): "ok" with the float, or the exception Python raises
ToFloat(v) ==
    IF v.k = "num" \/ v.k = "numstr" THEN [exc |-> "", val |-> Num(v.n)]
    ELSE IF v.k = "nan" \/ (v.k = "str" /\ v.s = "nan") THEN [exc |-> "", val |-> NaN]
    ELSE IF v.k = "str" THEN [exc |-> "ValueError", val |-> Null]
    ELSE [exc |-> "TypeError", val |-> Null]

\* Python float comparisons: every comparison with nan is False
FLe(a, b) == a.k = "num" /\ b.k = "num" /\ a.n <= b.n

FLt(a, b) == a.k = "num" /\ b.k = "num" /\ a.n < b.n

\* datetime.fromisoformat(ts.replace('Z', '+00:00'))
ParseTimestamp(v) ==
    IF v.k = "iso" \/ v.k = "isoz" THEN [exc |-> "", val |-> Dt(v.n)]
    ELSE IF v.k = "str" \/ v.k = "numstr" THEN [exc |-> "ValueError", val |-> Null]
    ELSE [exc |-> "AttributeError", val |-> Null]

RangeError_pasted(field) == "Latitude must be between -90 and 90"

\* the messages of lines 107-115
RangeError(field) ==
    CASE field = "latitude" -> "Latitude must be between -90 and 90"
      [] field = "longitude" -> "Longitude must be between -180 and 180"
      [] field = "altitude" -> "Altitude must be positive"
      [] field = "speed" -> "Speed must be positive"
      [] field = "heading" -> "Heading must be between 0 and 360"

Reject(code, msg, data) == [ok |-> FALSE, code |-> code, error |-> msg, data |-> data]

Validate(data) ==
    IF ~(required_fields \subseteq DOMAIN data)
    THEN Reject(400, "Missing one or more required fields", data)
    ELSE LET conv == [i \in 1..5 |-> ToFloat(data[numeric_fields[i]])]
             d1 == Merge(data, [f \in {numeric_fields[i] : i \in 1..5} |->
                                   conv[CHOOSE i \in 1..5 : numeric_fields[i] = f].val])
             ts == ParseTimestamp(data["timestamp"])
         IN IF \E i \in 1..5 : conv[i].exc # ""
            THEN Reject(400, "Invalid data types for numeric fields", data)
            ELSE IF ~(FLe(Num(-900000), d1["latitude"]) /\ FLe(d1["latitude"], Num(900000)))
            THEN Reject(400, RangeError("latitude"), data)
            ELSE IF ~(FLe(Num(-1800000), d1["longitude"]) /\ FLe(d1["longitude"], Num(1800000)))
            THEN Reject(400, RangeError("longitude"), data)
            ELSE IF FLt(d1["altitude"], Num(0))
            THEN Reject(400, RangeError("altitude"), data)
            ELSE IF FLt(d1["speed"], Num(0))
            THEN Reject(400, RangeError("speed"), data)
            ELSE IF ~(FLe(Num(0), d1["heading"]) /\ FLe(d1["heading"], Num(360)))
            THEN Reject(400, RangeError("heading"), data)
            ELSE IF ts.exc = "ValueError"
            THEN Reject(400, "Invalid timestamp format. Use ISO format", data)
            ELSE IF ts.exc # ""
            THEN Reject(500, ts.exc, data)
            ELSE [ok |-> TRUE, code |-> 200, error |-> "",
                  data |-> Merge(d1, [f \in {"timestamp"} |-> ts.val])]

(* ---------------- collection operations (pymongo) ---------------- *)

FlightIds == {"F1", "F2"}

Matches(d, id) == Has(d, "flight_id") /\ d["flight_id"] = id

FirstMatch(coll, id) ==
    CHOOSE i \in 1..Len(coll) : Matches(coll[i], id) /\ \A j \in 1..(i - 1) : ~Matches(coll[j], id)

RECURSIVE InsertSorted(_, _)
InsertSorted(sorted, d) ==
    IF sorted = << >> THEN << d >>
    ELSE IF sorted[Len(sorted)]["timestamp"].n <= d["timestamp"].n THEN Append(sorted, d)
    ELSE Append(InsertSorted(SubSeq(sorted, 1, Len(sorted) - 1), d), sorted[Len(sorted)])

RECURSIVE SortByTimestamp(_)
SortByTimestamp(docs) ==
    IF docs = << >> THEN << >>
    ELSE InsertSorted(SortByTimestamp(SubSeq(docs, 1, Len(docs) - 1)), docs[Len(docs)])

\* tracking.find({"flight_id": id}).sort("timestamp", 1)
find_sorted_unsorted(coll, id) == SelectSeq(coll, LAMBDA d : Matches(d, id))

find_sorted_all(coll, id) == SortByTimestamp(coll)

find_sorted(coll, id) == SortByTimestamp(SelectSeq(coll, LAMBDA d : Matches(d, id)))

\* flights.find_one({"flight_id": id}); None is Null
find_one(coll, id) ==
    IF \E i \in 1..Len(coll) : Matches(coll[i], id)
    THEN coll[FirstMatch(coll, id)]
    ELSE Null

insert_one_dedup(coll, doc, oid) ==
    IF \E i \in 1..Len(coll) : /\ Has(doc, "timestamp") /\ Has(coll[i], "timestamp")
                                /\ coll[i]["flight_id"] = doc["flight_id"]
                                /\ coll[i]["timestamp"] = doc["timestamp"]
    THEN coll
    ELSE Append(coll, Merge(doc, [f \in {"_id"} |-> Oid(oid)]))

insert_one_replacing(coll, doc, oid) ==
    Append(SelectSeq(coll, LAMBDA d : d["flight_id"] # doc["flight_id"]), Merge(doc, [f \in {"_id"} |-> Oid(oid)]))

insert_one(coll, doc, oid) == Append(coll, Merge(doc, [f \in {"_id"} |-> Oid(oid)]))

update_one_droplanded(coll, id, upd, oid) ==
    IF Get(upd, "ready_for_completion") = True
    THEN SelectSeq(coll, LAMBDA d : ~Matches(d, id))
    ELSE IF \E i \in 1..Len(coll) : Matches(coll[i], id)
    THEN [coll EXCEPT ![FirstMatch(coll, id)] = Merge(coll[FirstMatch(coll, id)], upd)]
    ELSE Append(coll, Merge(upd, [f \in {"_id"} |-> Oid(oid)]))

update_one_noupsert(coll, id, upd, oid) ==
    IF \E i \in 1..Len(coll) : Matches(coll[i], id)
    THEN [coll EXCEPT ![FirstMatch(coll, id)] = Merge(coll[FirstMatch(coll, id)], upd)]
    ELSE coll

update_one_replace(coll, id, upd, oid) ==
    IF \E i \in 1..Len(coll) : Matches(coll[i], id)
    THEN [coll EXCEPT ![FirstMatch(coll, id)] = Merge([f \in {"_id"} |-> coll[FirstMatch(coll, id)]["_id"]], upd)]
    ELSE Append(coll, Merge(Merge([f \in {"_id"} |-> Oid(oid)], [f \in {"flight_id"} |-> id]), upd))

update_one_newer(coll, id, upd, oid) ==
    IF \E i \in 1..Len(coll) : Matches(coll[i], id)
    THEN IF coll[FirstMatch(coll, id)]["last_updated"].n > upd["last_updated"].n
         THEN coll
         ELSE [coll EXCEPT ![FirstMatch(coll, id)] = Merge(coll[FirstMatch(coll, id)], upd)]
    ELSE Append(coll, Merge(Merge([f \in {"_id"} |-> Oid(oid)], [f \in {"flight_id"} |-> id]), upd))

\* update_one({"flight_id": id}, {"$set": upd}, upsert=True)
update_one(coll, id, upd, oid) ==
    IF \E i \in 1..Len(coll) : Matches(coll[i], id)
    THEN [coll EXCEPT ![FirstMatch(coll, id)] = Merge(coll[FirstMatch(coll, id)], upd)]
    ELSE Append(coll, Merge(Merge([f \in {"_id"} |-> Oid(oid)], [f \in {"flight_id"} |-> id]), upd))

Upserts(coll, id) == ~\E i \in 1..Len(coll) : Matches(coll[i], id)

delete_many_first(coll, id) ==
    IF \E i \in 1..Len(coll) : Matches(coll[i], id)
    THEN SubSeq(coll, 1, FirstMatch(coll, id) - 1) \o SubSeq(coll, FirstMatch(coll, id) + 1, Len(coll))
    ELSE coll

delete_many_all(coll, id) == << >>

delete_many(coll, id) == SelectSeq(coll, LAMBDA d : ~Matches(d, id))

delete_one(coll, id) ==
    IF \E i \in 1..Len(coll) : Matches(coll[i], id)
    THEN SubSeq(coll, 1, FirstMatch(coll, id) - 1) \o SubSeq(coll, FirstMatch(coll, id) + 1, Len(coll))
    ELSE coll

(* ---------------- update_flight (lines 126-175) ---------------- *)

\* the document handed to tracking.insert_one: the validated body plus received_at
TrackPoint(data, now) == Merge(data, [f \in {"received_at"} |-> Dt(now)])

LandedThreshold == 9500

ReachedDestination_strict(route_progress) == route_progress > LandedThreshold

\* line 159
ReachedDestination(route_progress) == route_progress >= LandedThreshold

OptionalPart_short(data) ==
    [f \in {"aircraft_type", "airline", "departure", "arrival", "route"} \cap DOMAIN data |-> data[f]]

OptionalPart_all(data) == [f \in (DOMAIN data) \ required_fields |-> data[f]]

\* lines 146-149
OptionalPart(data) == [f \in optional_fields \cap DOMAIN data |-> data[f]]

\* lines 133-162; err is the TypeError of an unhashable airport code
FlightUpdate(data) ==
    LET base == [flight_id |-> data["flight_id"], latitude |-> data["latitude"],
                 longitude |-> data["longitude"], altitude |-> data["altitude"],
                 speed |-> data["speed"], heading |-> data["heading"],
                 status |-> data["status"], last_updated |-> data["timestamp"],
                 received_at |-> data["received_at"]]
        u1 == Merge(base, OptionalPart(data))
    IN IF Has(data, "source") /\ Has(data, "destination")
       THEN LET rp == calculate_route_progress(data["latitude"].n, data["longitude"].n,
                                               Get(data, "source"), Get(data, "destination"))
                u2 == Merge(u1, [f \in {"route_progress"} |-> Num(rp.p)])
            IN IF rp.err THEN [err |-> TRUE, doc |-> u1]
               ELSE IF ReachedDestination(rp.p)
               THEN [err |-> FALSE,
                     doc |-> Merge(u2, [status |-> Str("landed"), ready_for_completion |-> True])]
               ELSE [err |-> FALSE, doc |-> u2]
       ELSE [err |-> FALSE, doc |-> u1]

(* ---------------- complete_flight / auto_complete_landed_flights ---------------- *)

RoundDiv(a, b) == (2 * a + b) \div (2 * b)

\* (end - start).total_seconds() / 60, rounded to 2 decimals, in 1e-2 minute
DurationMinutes(path_data) ==
    IF Len(path_data) > 1
    THEN RoundDiv((path_data[Len(path_data)]["timestamp"].n - path_data[1]["timestamp"].n) * 100, 60)
    ELSE 0

\* lines 267-283
LogEntry(flight_id, path_data, flight_details, now) ==
    [flight_id |-> flight_id, path |-> path_data, flight_details |-> flight_details,
     completed_at |-> Dt(now), total_tracking_points |-> Len(path_data),
     departure_time |-> path_data[1]["timestamp"],
     arrival_time |-> path_data[Len(path_data)]["timestamp"],
     total_duration_minutes |-> DurationMinutes(path_data)]

RECURSIVE SumLegs(_, _)
SumLegs(path_data, i) ==
    IF i < 2 THEN 0
    ELSE SumLegs(path_data, i - 1) +
         calculate_distance(path_data[i - 1]["latitude"].n, path_data[i - 1]["longitude"].n,
                            path_data[i]["latitude"].n, path_data[i]["longitude"].n)

\* lines 401-416, in 1e-2 km
calculate_flight_distance(path_data) ==
    IF Len(path_data) < 2 THEN 0 ELSE RoundDiv(SumLegs(path_data, Len(path_data)), 100)

GetOr(d, f, default) == IF f \in DOMAIN d THEN d[f] ELSE default

\* lines 362-384
AutoLogEntry(flight, path_data, flight_details, now) ==
    Merge(LogEntry(flight["flight_id"], path_data, flight_details, now),
          [auto_completed |-> True,
           route |-> [source |-> GetOr(flight, "source", Str("Unknown")),
                      destination |-> GetOr(flight, "destination", Str("Unknown")),
                      final_progress |-> GetOr(flight, "route_progress", Num(0))],
           flight_summary |-> [aircraft_type |-> GetOr(flight, "aircraft_type", Str("Unknown")),
                               airline |-> GetOr(flight, "airline", Str("Unknown")),
                               departure_airport |-> GetOr(flight, "source", Str("Unknown")),
                               arrival_airport |-> GetOr(flight, "destination", Str("Unknown")),
                               total_distance_km |-> calculate_flight_distance(path_data)]])

\* the $or filter of lines 333-339
SweepSelects_statusOnly(f) == Has(f, "status") /\ f["status"] = Str("landed")

SweepSelects(f) ==
    \/ (Has(f, "status") /\ f["status"] = Str("landed"))
    \/ (Has(f, "ready_for_completion") /\ f["ready_for_completion"] = True)
    \/ (Has(f, "route_progress") /\ f["route_progress"].k = "num" /\ f["route_progress"].n >= LandedThreshold)

find_landed(coll) == SelectSeq(coll, SweepSelects)

(* ---------------- request bodies posted to /api/flight/update ---------------- *)

\* two instants of the reporters' clocks, in seconds
Instants == [early |-> 60, late |-> 100]

T1 == Instants.early

T2 == Instants.late

Body(fid, pos, status, ts) ==
    [flight_id |-> Str(fid), latitude |-> Num(pos.lat), longitude |-> Num(pos.lon),
     altitude |-> Num(35000), speed |-> Num(450), heading |-> Num(270),
     status |-> Str(status), timestamp |-> ts]

Route(src, dst) == [source |-> src, destination |-> dst]

Base == Body("F1", MID, "en-route", Iso(T2))

JfkLax == Route(Str("JFK"), Str("LAX"))

Spoofed == [route_progress |-> Num(9900), ready_for_completion |-> True, received_at |-> Iso(T1)]

\* bodies the handler accepts
GoodBodies ==
    {Merge(Body("F1", MID, "en-route", ts), JfkLax) : ts \in {Iso(T1), Iso(T2)}}
    \cup {Merge(Body("F1", NEAR, "en-route", Iso(T2)), JfkLax)}
    \cup {Merge(Base, r) : r \in {NoDoc, Route(Str("JFK"), Str("JFK")), Route(Str("XXX"), Str("LAX")),
                                  [source |-> Str("JFK")]}}
    \cup {Body("F1", MID, "landed", IsoZ(T1))}
    \cup {Merge(Merge(Base, r), Spoofed) : r \in {NoDoc, JfkLax}}
    \cup {Merge(Base, [airline |-> Str("PIA"), aircraft_type |-> Str("A320")])}
    \cup {Merge(Body("F2", pos, "en-route", Iso(T1)), JfkLax) : pos \in {MID, NEAR}}

\* a body whose airport code is a JSON array: stored in the history, then a TypeError
ListBody == Merge(Base, Route(List, Str("LAX")))

\* accepted bodies at the edges of the checks: bounds, numeric strings, NaN
EdgeBodies ==
    {Merge(Body("F1", AIRPORTS.JFK, "en-route", Iso(T1)), JfkLax),
     Merge(Base, Route(List, Null)),
     Merge(Base, [latitude |-> NumStr(MID.lat), altitude |-> Num(0), speed |-> Num(0), heading |-> Num(360)]),
     Merge(Base, [heading |-> Num(0)]),
     Merge(Base, [altitude |-> Str("nan")]), Merge(Base, [speed |-> NaN])}

\* bodies that fail one check of lines 92-124
BadBodies ==
    {[f \in (DOMAIN Base) \ {g} |-> Base[f]] : g \in {"flight_id", "heading", "timestamp"}}
    \cup {Merge(Base, [f \in {g} |-> v]) : g \in {"latitude", "speed"}, v \in {Str("abc"), Null}}
    \cup {Merge(Base, [latitude |-> Num(900001)]), Merge(Base, [latitude |-> Num(-900001)]),
          Merge(Base, [latitude |-> NaN]),
          Merge(Base, [longitude |-> Num(1800001)]), Merge(Base, [longitude |-> Num(-1800001)]),
          Merge(Base, [altitude |-> Num(-1)]), Merge(Base, [speed |-> NumStr(-1)]),
          Merge(Base, [heading |-> Num(361)]), Merge(Base, [heading |-> Num(-1)]),
          Merge(Base, [timestamp |-> Str("yesterday")]), Merge(Base, [timestamp |-> Num(T1)]),
          Merge(Base, [timestamp |-> Null]),
          Merge(Base, [latitude |-> Num(900001), heading |-> Num(361)]),
          Merge(Base, [longitude |-> Num(1800001), speed |-> Str("abc")])}

\* bodies of the lifecycle specification
Bodies == GoodBodies \cup {ListBody, Merge(Base, [heading |-> Num(361)])}

\* bodies of the validation specification
AllBodies == GoodBodies \cup {ListBody} \cup EdgeBodies \cup BadBodies

(* ---------------- handlers run one at a time ---------------- *)

\* what a handler answers: the status code, the error message, and the fields and the
\* documents of the JSON body
Response(op, code, error, flight_id, n, dur) ==
    [op |-> op, code |-> code, error |-> error, flight_id |-> flight_id, n |-> n, dur |-> dur,
     docs |-> << >>]

Answer(op, code, error, flight_id, docs) ==
    [Response(op, code, error, flight_id, Len(docs), 0) EXCEPT !.docs = docs]

Idle == [data |-> NoDoc, flight_id |-> Null, path |-> << >>,
        details |-> Null, landed |-> << >>, count |-> 0]

Procs == {1, 2}

Init ==
    /\ flights = << >>
    /\ tracking = << >>
    /\ logs = << >>
    /\ nextId = 1
    /\ clock = 1
    /\ nreports = 0
    /\ accepted = {}
    /\ raced = {}
    /\ req = [op |-> "none", data |-> NoDoc, flight_id |-> Null]
    /\ resp = Response("none", 0, "", Null, 0, 0)
    /\ pc = [p \in Procs |-> "idle"]
    /\ local = [p \in Procs |-> Idle]

\* POST /api/flight/update
update_flight(data) ==
    LET v == Validate(data)
        point == TrackPoint(v.data, clock)
        fu == FlightUpdate(point)
        fid == point["flight_id"]
    IN /\ req' = [op |-> "update", data |-> data, flight_id |-> Get(data, "flight_id")]
       /\ UNCHANGED <<logs, raced, pc, local>>
       /\ IF ~v.ok
          THEN /\ resp' = Response("update", v.code, v.error, Get(data, "flight_id"), 0, 0)
               /\ UNCHANGED <<flights, tracking, nextId, clock, nreports, accepted>>
          ELSE /\ nreports' = nreports + 1
               /\ clock' = clock + 1
               /\ tracking' = insert_one(tracking, point, nextId)
               /\ IF fu.err
                  THEN /\ resp' = Response("update", 500, "TypeError", fid, nextId, 0)
                       /\ nextId' = nextId + 1
                       /\ UNCHANGED <<flights, accepted>>
                  ELSE /\ flights' = update_one(flights, fid, fu.doc, nextId + 1)
                       /\ nextId' = IF Upserts(flights, fid) THEN nextId + 2 ELSE nextId + 1
                       /\ accepted' = accepted \cup {[oid |-> nextId, flight_id |-> fid]}
                       /\ resp' = Response("update", 200, "", fid, nextId, 0)

\* POST /api/flight/<flight_id>/complete
complete_flight(flight_id) ==
    LET path_data == find_sorted(tracking, Str(flight_id))
        flight_details == find_one(flights, Str(flight_id))
        log_entry == LogEntry(Str(flight_id), path_data, flight_details, clock)
    IN /\ req' = [op |-> "complete", data |-> NoDoc, flight_id |-> Str(flight_id)]
       /\ UNCHANGED <<nreports, accepted, raced, pc, local>>
       /\ IF path_data = << >>
          THEN /\ resp' = Response("complete", 404, "No data for this flight", Str(flight_id), 0, 0)
               /\ UNCHANGED <<flights, tracking, logs, nextId, clock>>
          ELSE /\ logs' = insert_one(logs, log_entry, nextId)
               /\ nextId' = nextId + 1
               /\ clock' = clock + 1
               /\ tracking' = delete_many(tracking, Str(flight_id))
               /\ flights' = delete_one(flights, Str(flight_id))
               /\ resp' = Response("complete", 200, "", Str(flight_id), Len(path_data),
                                   log_entry.total_duration_minutes)

SweepOne_drop(st, flight) ==
    LET flight_id == flight["flight_id"]
        path_data == find_sorted(st.tracking, flight_id)
        flight_details == find_one(st.flights, flight_id)
    IN IF path_data = << >> THEN [st EXCEPT !.flights = delete_one(st.flights, flight_id)]
       ELSE [flights |-> delete_one(st.flights, flight_id),
             tracking |-> delete_many(st.tracking, flight_id),
             logs |-> insert_one(st.logs, AutoLogEntry(flight, path_data, flight_details, st.clock), st.nextId),
             nextId |-> st.nextId + 1, clock |-> st.clock + 1, count |-> st.count + 1]

\* one iteration of the loop of lines 342-393 on the collections st
SweepOne(st, flight) ==
    LET flight_id == flight["flight_id"]
        path_data == find_sorted(st.tracking, flight_id)
        flight_details == find_one(st.flights, flight_id)
    IN IF path_data = << >> THEN st
       ELSE [flights |-> delete_one(st.flights, flight_id),
             tracking |-> delete_many(st.tracking, flight_id),
             logs |-> insert_one(st.logs, AutoLogEntry(flight, path_data, flight_details, st.clock), st.nextId),
             nextId |-> st.nextId + 1, clock |-> st.clock + 1, count |-> st.count + 1]

RECURSIVE SweepLoop(_, _, _)
SweepLoop(st, landed_flights, i) ==
    IF i > Len(landed_flights) THEN st
    ELSE SweepLoop(SweepOne(st, landed_flights[i]), landed_flights, i + 1)

\* POST /api/flights/auto-complete
auto_complete_landed_flights ==
    LET st == SweepLoop([flights |-> flights, tracking |-> tracking, logs |-> logs,
                         nextId |-> nextId, clock |-> clock, count |-> 0],
                        find_landed(flights), 1)
    IN /\ req' = [op |-> "sweep", data |-> NoDoc, flight_id |-> Null]
       /\ flights' = st.flights
       /\ tracking' = st.tracking
       /\ logs' = st.logs
       /\ nextId' = st.nextId
       /\ clock' = st.clock
       /\ resp' = Response("sweep", 200, "", Null, st.count, 0)
       /\ UNCHANGED <<nreports, accepted, raced, pc, local>>

\* the bound on the number of stored reports
Within(data, max) == Validate(data).ok => nreports < max

Next ==
    \/ \E data \in Bodies : Within(data, MaxReports) /\ update_flight(data)
    \/ \E flight_id \in FlightIds : complete_flight(flight_id)
    \/ auto_complete_landed_flights

Spec == Init /\ [][Next]_vars

NextV ==
    \/ \E data \in AllBodies : Within(data, MaxReportsV) /\ update_flight(data)
    \/ \E flight_id \in FlightIds : complete_flight(flight_id)
    \/ auto_complete_landed_flights

SpecV == Init /\ [][NextV]_vars

(* ---------------- handlers interleaved at each collection operation ---------------- *)

\* bodies of the interleaved specification
BodiesI ==
    {Base, Merge(Body("F1", NEAR, "en-route", Iso(T1)), JfkLax),
     Merge(Body("F2", NEAR, "en-route", Iso(T1)), JfkLax), Merge(Base, [heading |-> Num(361)])}

\* p holds a copy of the history of flight id that it has yet to delete from the collection
Archiving(p, id) ==
    /\ pc[p] \in {"cf_details", "cf_log", "cf_del_tracking", "ac_details", "ac_log", "ac_del_tracking"}
    /\ local[p].flight_id = id

\* lines 90-162: validation, tracking.insert_one, and the building of flight_update
update_insert(p, data) ==
    LET v == Validate(data)
        point == TrackPoint(v.data, clock)
        fu == FlightUpdate(point)
        fid == point["flight_id"]
    IN /\ pc[p] = "idle"
       /\ req' = [op |-> "update", data |-> data, flight_id |-> Get(data, "flight_id")]
       /\ UNCHANGED <<flights, logs, accepted>>
       /\ IF ~v.ok
          THEN /\ resp' = Response("update", v.code, v.error, Get(data, "flight_id"), 0, 0)
               /\ UNCHANGED <<tracking, nextId, clock, nreports, raced, pc, local>>
          ELSE /\ nreports' = nreports + 1
               /\ clock' = clock + 1
               /\ nextId' = nextId + 1
               /\ tracking' = insert_one(tracking, point, nextId)
               /\ raced' = IF \E q \in Procs : Archiving(q, fid) THEN raced \cup {nextId} ELSE raced
               /\ IF fu.err
                  THEN /\ resp' = Response("update", 500, "TypeError", fid, nextId, 0)
                       /\ UNCHANGED <<pc, local>>
                  ELSE /\ pc' = [pc EXCEPT ![p] = "upd_set"]
                       /\ local' = [local EXCEPT ![p] = [Idle EXCEPT !.data = fu.doc, !.flight_id = fid,
                                                                    !.count = nextId]]
                       /\ UNCHANGED resp

\* lines 164-175: flights.update_one and the success response
update_set(p) ==
    /\ pc[p] = "upd_set"
    /\ flights' = update_one(flights, local[p].flight_id, local[p].data, nextId)
    /\ nextId' = IF Upserts(flights, local[p].flight_id) THEN nextId + 1 ELSE nextId
    /\ accepted' = accepted \cup {[oid |-> local[p].count, flight_id |-> local[p].flight_id]}
    /\ resp' = Response("update", 200, "", local[p].flight_id, local[p].count, 0)
    /\ pc' = [pc EXCEPT ![p] = "idle"]
    /\ local' = [local EXCEPT ![p] = Idle]
    /\ UNCHANGED <<tracking, logs, clock, nreports, raced, req>>

\* lines 259-261
complete_find(p, flight_id) ==
    LET path_data == find_sorted(tracking, Str(flight_id))
    IN /\ pc[p] = "idle"
       /\ req' = [op |-> "complete", data |-> NoDoc, flight_id |-> Str(flight_id)]
       /\ UNCHANGED <<flights, tracking, logs, nextId, clock, nreports, accepted, raced>>
       /\ IF path_data = << >>
          THEN /\ resp' = Response("complete", 404, "No data for this flight", Str(flight_id), 0, 0)
               /\ UNCHANGED <<pc, local>>
          ELSE /\ pc' = [pc EXCEPT ![p] = "cf_details"]
               /\ local' = [local EXCEPT ![p] = [Idle EXCEPT !.flight_id = Str(flight_id), !.path = path_data]]
               /\ UNCHANGED resp

\* line 264 and line 349
archive_details(p) ==
    /\ pc[p] \in {"cf_details", "ac_details"}
    /\ local' = [local EXCEPT ![p].details = find_one(flights, local[p].flight_id)]
    /\ pc' = [pc EXCEPT ![p] = IF pc[p] = "cf_details" THEN "cf_log" ELSE "ac_log"]
    /\ UNCHANGED <<flights, tracking, logs, nextId, clock, nreports, accepted, raced, req, resp>>

\* lines 267-285 and lines 352-386
archive_log(p) ==
    /\ pc[p] \in {"cf_log", "ac_log"}
    /\ logs' = insert_one(logs,
                          IF pc[p] = "cf_log"
                          THEN LogEntry(local[p].flight_id, local[p].path, local[p].details, clock)
                          ELSE AutoLogEntry(local[p].landed[1], local[p].path, local[p].details, clock),
                          nextId)
    /\ nextId' = nextId + 1
    /\ clock' = clock + 1
    /\ pc' = [pc EXCEPT ![p] = IF pc[p] = "cf_log" THEN "cf_del_tracking" ELSE "ac_del_tracking"]
    /\ UNCHANGED <<flights, tracking, nreports, accepted, raced, req, resp, local>>

\* line 288 and line 389
archive_del_tracking(p) ==
    /\ pc[p] \in {"cf_del_tracking", "ac_del_tracking"}
    /\ tracking' = delete_many(tracking, local[p].flight_id)
    /\ pc' = [pc EXCEPT ![p] = IF pc[p] = "cf_del_tracking" THEN "cf_del_flight" ELSE "ac_del_flight"]
    /\ UNCHANGED <<flights, logs, nextId, clock, nreports, accepted, raced, req, resp, local>>

\* lines 289-296
complete_del_flight(p) ==
    /\ pc[p] = "cf_del_flight"
    /\ flights' = delete_one(flights, local[p].flight_id)
    /\ resp' = Response("complete", 200, "", local[p].flight_id, Len(local[p].path),
                        DurationMinutes(local[p].path))
    /\ pc' = [pc EXCEPT ![p] = "idle"]
    /\ local' = [local EXCEPT ![p] = Idle]
    /\ UNCHANGED <<tracking, logs, nextId, clock, nreports, accepted, raced, req>>

\* the sweep moves to the next flight of landed_flights, or responds after the last one
SweepAdvance(p, rest, count) ==
    IF rest = << >>
    THEN /\ resp' = Response("sweep", 200, "", Null, count, 0)
         /\ pc' = [pc EXCEPT ![p] = "idle"]
         /\ local' = [local EXCEPT ![p] = Idle]
    ELSE /\ pc' = [pc EXCEPT ![p] = "ac_path"]
         /\ local' = [local EXCEPT ![p] = [Idle EXCEPT !.landed = rest, !.count = count,
                                                      !.flight_id = rest[1]["flight_id"]]]
         /\ UNCHANGED resp

\* lines 333-340
sweep_find(p) ==
    /\ pc[p] = "idle"
    /\ req' = [op |-> "sweep", data |-> NoDoc, flight_id |-> Null]
    /\ SweepAdvance(p, find_landed(flights), 0)
    /\ UNCHANGED <<flights, tracking, logs, nextId, clock, nreports, accepted, raced>>

\* lines 346-347
sweep_path(p) ==
    LET path_data == find_sorted(tracking, local[p].flight_id)
    IN /\ pc[p] = "ac_path"
       /\ IF path_data = << >>
          THEN SweepAdvance(p, Tail(local[p].landed), local[p].count)
          ELSE /\ pc' = [pc EXCEPT ![p] = "ac_details"]
               /\ local' = [local EXCEPT ![p].path = path_data]
               /\ UNCHANGED resp
       /\ UNCHANGED <<flights, tracking, logs, nextId, clock, nreports, accepted, raced, req>>

\* lines 390-392
sweep_del_flight(p) ==
    /\ pc[p] = "ac_del_flight"
    /\ flights' = delete_one(flights, local[p].flight_id)
    /\ SweepAdvance(p, Tail(local[p].landed), local[p].count + 1)
    /\ UNCHANGED <<tracking, logs, nextId, clock, nreports, accepted, raced, req>>

\* the worker that serves the reporter's requests
Reporters == {1}

\* the worker that serves the archival requests
Archivers == {2}

NextI ==
    \/ \E p \in Reporters, data \in BodiesI : Within(data, MaxReportsI) /\ update_insert(p, data)
    \/ \E p \in Procs : update_set(p)
    \/ \E p \in Archivers, flight_id \in FlightIds : complete_find(p, flight_id)
    \/ \E p \in Procs : archive_details(p)
    \/ \E p \in Procs : archive_log(p)
    \/ \E p \in Procs : archive_del_tracking(p)
    \/ \E p \in Procs : complete_del_flight(p)
    \/ \E p \in Archivers : sweep_find(p)
    \/ \E p \in Procs : sweep_path(p)
    \/ \E p \in Procs : sweep_del_flight(p)

SpecI == Init /\ [][NextI]_vars

(* ---------------- the sweep when a collection operation raises ---------------- *)

MaxReportsF == 2

MaxLogsF == 2

\* bodies of the specification with failing collection operations
BodiesF ==
    {Merge(Body(fid, pos, "en-route", Iso(T1)), JfkLax) : fid \in FlightIds, pos \in {MID, NEAR}}
    \cup {Body("F1", MID, "landed", Iso(T2))}

\* the collection operations of one iteration of the loop, in the order of lines 346-390
LoopOps == <<"find", "find_one", "insert_one", "delete_many", "delete_one">>

\* the iteration of lines 343-390 for flight, left when its operation LoopOps[o] raises:
\* the operations before it have acted, the raising one and those after it have not
SweepFault(st, flight, o) ==
    LET flight_id == flight["flight_id"]
        path_data == find_sorted(st.tracking, flight_id)
        flight_details == find_one(st.flights, flight_id)
        logged == [st EXCEPT !.logs = insert_one(st.logs, AutoLogEntry(flight, path_data, flight_details, st.clock), st.nextId),
                             !.nextId = st.nextId + 1, !.clock = st.clock + 1]
    IN CASE o <= 3 -> st
         [] o = 4 -> logged
         [] o = 5 -> [logged EXCEPT !.tracking = delete_many(st.tracking, flight_id)]

\* POST /api/flights/auto-complete during which one collection operation of the iteration
\* for landed_flights[k] raises: nothing catches it, the request ends in a 500
sweep_fails(k, o) ==
    LET landed_flights == find_landed(flights)
        before == SweepLoop([flights |-> flights, tracking |-> tracking, logs |-> logs,
                             nextId |-> nextId, clock |-> clock, count |-> 0],
                            SubSeq(landed_flights, 1, k - 1), 1)
        st == SweepFault(before, landed_flights[k], o)
    IN /\ k \in 1..Len(landed_flights)
       /\ Len(logs) < MaxLogsF
       /\ o > 1 => find_sorted(before.tracking, landed_flights[k]["flight_id"]) # << >>
       /\ req' = [op |-> "sweep", data |-> [fails |-> Str(LoopOps[o]), at |-> landed_flights[k]["flight_id"]],
                  flight_id |-> Null]
       /\ flights' = st.flights
       /\ tracking' = st.tracking
       /\ logs' = st.logs
       /\ nextId' = st.nextId
       /\ clock' = st.clock
       /\ resp' = Response("sweep", 500, "PyMongoError", Null, 0, 0)
       /\ UNCHANGED <<nreports, accepted, raced, pc, local>>

\* GET /api/flights/logs: the entries are read and converted in a copy; jsonify has no
\* encoding for the ObjectId of a path element and raises TypeError
get_all_completed_flights ==
    /\ req' = [op |-> "logs", data |-> NoDoc, flight_id |-> Null]
    /\ resp' = IF \E i \in 1..Len(logs) : \E j \in 1..Len(logs[i]["path"]) : logs[i]["path"][j]["_id"].k = "oid"
               THEN Response("logs", 500, "TypeError", Null, 0, 0)
               ELSE Response("logs", 200, "", Null, Len(logs), 0)
    /\ UNCHANGED <<flights, tracking, logs, nextId, clock, nreports, accepted, raced, pc, local>>

NextF ==
    \/ \E data \in BodiesF : Within(data, MaxReportsF) /\ update_flight(data)
    \/ \E flight_id \in FlightIds : complete_flight(flight_id)
    \/ auto_complete_landed_flights
    \/ \E k \in 1..Cardinality(FlightIds), o \in DOMAIN LoopOps : sweep_fails(k, o)
    \/ get_all_completed_flights

SpecF == Init /\ [][NextF]_vars

(* ---------------- the queries ---------------- *)

MaxReportsQ == 2

\* bodies of the specification with queries: two reports of F1 carry the same timestamp
BodiesQ ==
    {Merge(Body("F1", MID, "en-route", ts), JfkLax) : ts \in {Iso(T1), Iso(T2)}}
    \cup {Merge(Body("F1", NEAR, "en-route", Iso(T2)), JfkLax), ListBody,
          Merge(Body("F2", MID, "en-route", Iso(T1)), JfkLax)}

\* the values of the timestamp parameter of /location: absent, not a date, four instants
Timestamps == {Null, Str("yesterday")} \cup {Iso(t) : t \in {T1 - 1, T1, T2 - 1, T2}}

\* datetime.isoformat()
isoformat(v) == [v EXCEPT !.k = "iso"]

\* str(ObjectId)
ObjectIdStr(v) == [v EXCEPT !.k = "oidstr"]

AtOrBefore_strict(coll, id, t) == SelectSeq(coll, LAMBDA d : Matches(d, id) /\ d["timestamp"].n < t)

\* tracking.find({"flight_id": id, "timestamp": {"$lte": t}})
AtOrBefore(coll, id, t) == SelectSeq(coll, LAMBDA d : Matches(d, id) /\ d["timestamp"].n <= t)

\* .sort("timestamp", -1).limit(1): a document with the greatest timestamp; MongoDB leaves
\* open which one when several documents carry it
Latest(docs) == {i \in 1..Len(docs) : \A j \in 1..Len(docs) : docs[j]["timestamp"].n <= docs[i]["timestamp"].n}

\* lines 222-234
Location(flight_id, target_time, point) ==
    [flight_id |-> flight_id, requested_time |-> isoformat(target_time),
     actual_time |-> isoformat(point["timestamp"]),
     location |-> [f \in {"latitude", "longitude", "altitude", "speed", "heading", "status"} |-> point[f]]]

\* GET /api/flight/<flight_id>/location?timestamp=
get_flight_location_at_time(flight_id, timestamp_str) ==
    LET target_time == ParseTimestamp(timestamp_str)
        tracking_points == AtOrBefore(tracking, Str(flight_id), target_time.val.n)
    IN /\ req' = [op |-> "location", data |-> [timestamp |-> timestamp_str], flight_id |-> Str(flight_id)]
       /\ UNCHANGED <<flights, tracking, logs, nextId, clock, nreports, accepted, raced, pc, local>>
       /\ IF timestamp_str = Null
          THEN resp' = Answer("location", 400, "Timestamp parameter required", Str(flight_id), << >>)
          ELSE IF target_time.exc # ""
          THEN resp' = Answer("location", 400, "Invalid timestamp format. Use ISO format", Str(flight_id), << >>)
          ELSE IF tracking_points = << >>
          THEN resp' = Answer("location", 404, "No tracking data found for the specified time",
                              Str(flight_id), << >>)
          ELSE \E i \in Latest(tracking_points) :
                   resp' = Answer("location", 200, "", Str(flight_id),
                                  << Location(Str(flight_id), target_time.val, tracking_points[i]) >>)

\* the orders in which .sort("timestamp", 1) can return docs: ascending timestamps, the
\* order of documents of equal timestamp is left open by MongoDB
SortedOrders(docs) ==
    {[k \in 1..Len(docs) |-> docs[f[k]]] :
        f \in {g \in [1..Len(docs) -> 1..Len(docs)] :
                  /\ \A a, b \in 1..Len(docs) : a # b => g[a] # g[b]
                  /\ \A a \in 1..(Len(docs) - 1) : docs[g[a]]["timestamp"].n <= docs[g[a + 1]]["timestamp"].n}}

\* lines 246-248
HistoryItem(item) ==
    Merge(item, [f \in {"_id", "timestamp"} |->
                    IF f = "_id" THEN ObjectIdStr(item["_id"]) ELSE isoformat(item["timestamp"])])

\* GET /api/flight/<flight_id>/history
get_flight_history(flight_id) ==
    LET found == SelectSeq(tracking, LAMBDA d : Matches(d, Str(flight_id)))
    IN /\ req' = [op |-> "history", data |-> NoDoc, flight_id |-> Str(flight_id)]
       /\ UNCHANGED <<flights, tracking, logs, nextId, clock, nreports, accepted, raced, pc, local>>
       /\ IF found = << >>
          THEN resp' = Answer("history", 404, "No tracking data found", Str(flight_id), << >>)
          ELSE \E history \in SortedOrders(found) :
                   resp' = Answer("history", 200, "", Str(flight_id),
                                  [i \in 1..Len(history) |-> HistoryItem(history[i])])

\* GET /api/flights/stats: recent_active and recent_completed are returned as read, and
\* jsonify has no encoding for the ObjectId in their _id: TypeError
get_flight_statistics ==
    LET active_count == Len(flights)
        completed_count == Len(logs)
        total_tracking_points == Len(tracking)
    IN /\ req' = [op |-> "stats", data |-> NoDoc, flight_id |-> Null]
       /\ UNCHANGED <<flights, tracking, logs, nextId, clock, nreports, accepted, raced, pc, local>>
       /\ IF flights # << >> \/ logs # << >>
          THEN resp' = Answer("stats", 500, "TypeError", Null, << >>)
          ELSE resp' = Answer("stats", 200, "", Null,
                              << [active_flights |-> active_count, completed_flights |-> completed_count,
                                  total_tracking_points |-> total_tracking_points] >>)

NextQ ==
    \/ \E data \in BodiesQ : Within(data, MaxReportsQ) /\ update_flight(data)
    \/ \E flight_id \in FlightIds : complete_flight(flight_id)
    \/ auto_complete_landed_flights
    \/ \E flight_id \in FlightIds, timestamp_str \in Timestamps : get_flight_location_at_time(flight_id, timestamp_str)
    \/ \E flight_id \in FlightIds : get_flight_history(flight_id)
    \/ get_flight_statistics

SpecQ == Init /\ [][NextQ]_vars

(* ---------------- reports with degenerate routes ---------------- *)

MaxReportsP == 2

\* bodies whose route starts and ends at one airport, or names a code that is no airport
BodiesP ==
    {Merge(Body("F1", pos, "en-route", Iso(T1)), Route(Str("LAX"), Str("LAX"))) :
        pos \in {AIRPORTS.JFK, MID, NEAR, AIRPORTS.LAX}}
    \cup {Merge(Base, [source |-> Str("XXX")]), Merge(Base, Route(Str("JFK"), Str("XXX"))),
          Merge(Base, Route(List, Str("XXX"))),
          Merge(Body("F1", NEAR, "en-route", Iso(T1)), Route(Str("XXX"), Str("LAX"))),
          Merge(Body("F1", NEAR, "en-route", Iso(T1)), JfkLax), Base}

NextP ==
    \/ \E data \in BodiesP : Within(data, MaxReportsP) /\ update_flight(data)
    \/ \E flight_id \in FlightIds : complete_flight(flight_id)
    \/ auto_complete_landed_flights

SpecP == Init /\ [][NextP]_vars

(* ---------------- two archivals at a time ---------------- *)

MaxReportsA == 1

\* bodies of the specification with two archiving workers: flights that the sweep selects
BodiesA == {Merge(Body(fid, NEAR, "en-route", Iso(T1)), JfkLax) : fid \in FlightIds}

\* both workers serve complete_flight and the sweep, step by step; reports are applied whole
NextA ==
    \/ \E data \in BodiesA : Within(data, MaxReportsA) /\ update_flight(data)
    \/ \E p \in Procs, flight_id \in FlightIds : complete_find(p, flight_id)
    \/ \E p \in Procs : archive_details(p)
    \/ \E p \in Procs : archive_log(p)
    \/ \E p \in Procs : archive_del_tracking(p)
    \/ \E p \in Procs : complete_del_flight(p)
    \/ \E p \in Procs : sweep_find(p)
    \/ \E p \in Procs : sweep_path(p)
    \/ \E p \in Procs : sweep_del_flight(p)

SpecA == Init /\ [][NextA]_vars

(* ---------------- two reports at a time ---------------- *)

MaxReportsR == 2

\* bodies of the specification with two reporting workers: two positions of one flight
BodiesR ==
    {Merge(Body("F1", MID, "en-route", Iso(T1)), JfkLax), Merge(Body("F1", NEAR, "en-route", Iso(T2)), JfkLax),
     Merge(Body("F2", MID, "en-route", Iso(T1)), JfkLax)}

\* both workers serve update_flight step by step; archivals are applied whole
NextR ==
    \/ \E p \in Procs, data \in BodiesR : Within(data, MaxReportsR) /\ update_insert(p, data)
    \/ \E p \in Procs : update_set(p)
    \/ \E flight_id \in FlightIds : complete_flight(flight_id)
    \/ auto_complete_landed_flights

SpecR == Init /\ [][NextR]_vars

(* ---------------- the claims ---------------- *)

ActiveIds == {flights[i]["flight_id"] : i \in 1..Len(flights)}

LoggedIds == {logs[i]["flight_id"] : i \in 1..Len(logs)}

ReportedIds == {a.flight_id : a \in accepted}

LogsOf(coll, id) == {i \in 1..Len(coll) : coll[i]["flight_id"] = id}

PointsOf(coll, id) == {i \in 1..Len(coll) : coll[i]["flight_id"] = id}

Applied == req.op = "update" /\ resp.op = "update" /\ resp.code = 200

\* C1 (as the spec states it): every flight_id with an accepted report is in exactly one of
\* the active set and the completed log.
C1_ExactlyOne ==
    \A id \in ReportedIds : (id \in ActiveIds) # (id \in LoggedIds)

\* C1 (amended): every flight_id with an accepted report is in the active set or in the
\* completed log, and it is in both only when its FlightState was written after every
\* archival of that flight_id.
C1_AtLeastOne ==
    \A id \in ReportedIds :
        /\ id \in ActiveIds \/ id \in LoggedIds
        /\ (id \in ActiveIds /\ id \in LoggedIds) =>
               \A i \in LogsOf(logs, id) : find_one(flights, id)["received_at"].n > logs[i]["completed_at"].n

C1_ReportedAgain ==
    \E id \in ReportedIds : id \in ActiveIds /\ id \in LoggedIds

\* C2 (as the spec states it): after a successful complete_flight(id) the log holds exactly
\* one entry for id, and id has no FlightState and no TrackPoint.
C2_ExactlyOneEntry ==
    (resp.op = "complete" /\ resp.code = 200) =>
        /\ resp.flight_id \notin ActiveIds
        /\ PointsOf(tracking, resp.flight_id) = {}
        /\ Cardinality(LogsOf(logs, resp.flight_id)) = 1

\* C2 (amended): a successful complete_flight(id) leaves id without FlightState and without
\* TrackPoint and adds exactly one entry for id to the log, whatever entries it held before.
C2_OneMoreEntry ==
    [][(resp'.op = "complete" /\ resp'.code = 200) =>
          /\ resp'.flight_id \notin ActiveIds'
          /\ PointsOf(tracking', resp'.flight_id) = {}
          /\ Len(logs') = Len(logs) + 1
          /\ SubSeq(logs', 1, Len(logs)) = logs
          /\ logs'[Len(logs')]["flight_id"] = resp'.flight_id]_vars

C2_ArchivedTwice ==
    /\ resp.op = "complete" /\ resp.code = 200
    /\ Cardinality(LogsOf(logs, resp.flight_id)) = 2

Kept(oid) ==
    \/ \E i \in 1..Len(tracking) : tracking[i]["_id"] = Oid(oid)
    \/ \E i \in 1..Len(logs) : \E j \in 1..Len(logs[i]["path"]) : logs[i]["path"][j]["_id"] = Oid(oid)

\* C3: an acknowledged report can be in neither the active history nor any log path, and
\* only when it was inserted while an archival of its flight held its copy of the history
\* and had not yet deleted the flight's track points.
C3_LostOnlyInRace ==
    \A a \in accepted : ~Kept(a.oid) => a.oid \in raced

C3_ReportLost ==
    \E a \in accepted : ~Kept(a.oid) /\ a.oid \in raced /\ \A p \in Procs : pc[p] = "idle"

CarriesRoute(d) == Has(d, "source") /\ Has(d, "destination")

State(id) == find_one(flights, id)

\* C4: after an accepted report with source and destination, a stored progress >= 95 means
\* status "landed" and ready_for_completion true; a stored progress < 95 means the
\* report's own status.
C4_LandedAt95 ==
    (Applied /\ CarriesRoute(req.data)) =>
        LET f == State(resp.flight_id)
        IN /\ Has(f, "route_progress")
           /\ f["route_progress"].n >= 9500 =>
                  f["status"] = Str("landed") /\ Get(f, "ready_for_completion") = True
           /\ f["route_progress"].n < 9500 => f["status"] = req.data["status"]

C4_Overridden ==
    /\ Applied /\ CarriesRoute(req.data)
    /\ req.data["status"] = Str("en-route")
    /\ State(resp.flight_id)["route_progress"] = Num(9500)
    /\ State(resp.flight_id)["status"] = Str("landed")

Ready(coll, id) ==
    /\ find_one(coll, id) # Null
    /\ Get(find_one(coll, id), "ready_for_completion") = True

\* C5: a FlightState with ready_for_completion true stays selected by the sweep filter
\* for as long as it is not archived.
C5_StaysCandidate ==
    [][\A id \in ActiveIds :
          Ready(flights, id) =>
              /\ req'.op = "update" => find_one(flights', id) # Null
              /\ find_one(flights', id) # Null => SweepSelects(find_one(flights', id))]_vars

C5_OnlyTheFlag ==
    \E id \in ActiveIds :
        /\ Ready(flights, id)
        /\ State(id)["status"] # Str("landed")
        /\ State(id)["route_progress"].n < 9500

Carried == {"source", "destination", "aircraft_type", "airline", "route", "route_progress", "ready_for_completion"}

\* the fields of Carried that the body r puts into a FlightState whose progress is p
Produces(r, g, p) ==
    IF g = "route_progress" THEN CarriesRoute(r)
    ELSE IF g = "ready_for_completion" THEN CarriesRoute(r) /\ p >= 9500
    ELSE Has(r, g)

\* C6 (as the spec states it): after an accepted report r, the FlightState holds no source,
\* destination, aircraft_type, airline, route, route_progress or ready_for_completion
\* that r does not carry or produce.
C6_FullReplace ==
    Applied =>
        LET f == State(resp.flight_id)
        IN \A g \in Carried : Has(f, g) => Produces(req.data, g, Get(f, "route_progress").n)

\* C6 (amended): after an accepted report r, the position, altitude, speed, heading,
\* last_updated and received_at of the FlightState are those of r, every optional field r
\* carries has r's value, and a field of Carried that r neither carries nor produces keeps
\* the value an earlier report gave it (and is absent if none did).
C6_SetMerge ==
    [][Applied' =>
          LET old == find_one(flights, resp'.flight_id)
              new == find_one(flights', resp'.flight_id)
              r == req'.data
          IN /\ new # Null
             /\ \A i \in 1..5 : Get(new, numeric_fields[i]) = ToFloat(r[numeric_fields[i]]).val
             /\ Get(new, "last_updated") = ParseTimestamp(r["timestamp"]).val
             /\ Get(new, "received_at") = Dt(clock)
             /\ \A g \in optional_fields \cap DOMAIN r : Get(new, g) = r[g]
             /\ \A g \in Carried :
                    ~Produces(r, g, Get(new, "route_progress").n) =>
                        IF old # Null /\ Has(old, g) THEN Has(new, g) /\ new[g] = old[g]
                        ELSE ~Has(new, g)]_vars

C6_Survives ==
    /\ Applied
    /\ ~Has(req.data, "source") /\ ~Has(req.data, "destination")
    /\ Has(State(resp.flight_id), "source") /\ Has(State(resp.flight_id), "route_progress")
    /\ Has(State(resp.flight_id), "ready_for_completion")

\* C7: an accepted report always overwrites the position, altitude, speed, heading and
\* last_updated of its FlightState, also when its timestamp is earlier than last_updated.
C7_LastWriteWins ==
    Applied =>
        LET f == State(resp.flight_id)
        IN /\ f # Null
           /\ \A i \in 1..5 : Get(f, numeric_fields[i]) = ToFloat(req.data[numeric_fields[i]]).val
           /\ Get(f, "last_updated") = ParseTimestamp(req.data["timestamp"]).val

C7_WentBack ==
    /\ Applied
    /\ \E i \in PointsOf(tracking, resp.flight_id) :
           /\ i < Len(tracking)
           /\ tracking[Len(tracking)]["flight_id"] = resp.flight_id
           /\ tracking[i]["timestamp"].n > tracking[Len(tracking)]["timestamp"].n
           /\ State(resp.flight_id)["last_updated"] = tracking[Len(tracking)]["timestamp"]

\* C8: a report that passes validation appends exactly one TrackPoint, for its own
\* flight_id, and changes no other TrackPoint, also when the same report was stored before.
C8_AppendsOne ==
    [][(req'.op = "update" /\ Validate(req'.data).ok) =>
          /\ Len(tracking') = Len(tracking) + 1
          /\ SubSeq(tracking', 1, Len(tracking)) = tracking
          /\ tracking'[Len(tracking')]["flight_id"] = req'.data["flight_id"]
          /\ tracking'[Len(tracking')]["_id"] = Oid(resp'.n)]_vars

SameReport(a, b) ==
    /\ DOMAIN a = DOMAIN b
    /\ \A f \in (DOMAIN a) \ {"_id", "received_at"} : a[f] = b[f]

C8_StoredTwice ==
    /\ Applied
    /\ \E i \in 1..Len(tracking) : \E j \in 1..Len(tracking) :
           i < j /\ SameReport(tracking[i], tracking[j]) /\ tracking[i]["_id"] # tracking[j]["_id"]

InClosed(v, lo, hi) == v.k = "num" /\ lo <= v.n /\ v.n <= hi

Outside(v, lo, hi) == v.k = "num" /\ (v.n < lo \/ v.n > hi)

Present(d) == required_fields \subseteq DOMAIN d

Parses(d) == \A i \in 1..5 : ToFloat(d[numeric_fields[i]]).exc = ""

\* a body with a required field missing, a numeric field that is no number, a number
\* outside its range, or a timestamp that is no date-time string
FailsValidation(d) ==
    \/ ~Present(d)
    \/ Present(d) /\ ~Parses(d)
    \/ /\ Present(d) /\ Parses(d)
       /\ \/ Outside(ToFloat(d["latitude"]).val, -900000, 900000)
          \/ Outside(ToFloat(d["longitude"]).val, -1800000, 1800000)
          \/ Outside(ToFloat(d["heading"]).val, 0, 360)
          \/ ToFloat(d["altitude"]).val.k = "num" /\ ToFloat(d["altitude"]).val.n < 0
          \/ ToFloat(d["speed"]).val.k = "num" /\ ToFloat(d["speed"]).val.n < 0
    \/ Present(d) /\ ParseTimestamp(d["timestamp"]).exc # ""

\* C9: a report that fails validation is answered with a 400 error and changes none of the
\* three collections.
C9_RejectedWith400 ==
    [][(req'.op = "update" /\ FailsValidation(req'.data)) =>
          (resp'.code = 400 /\ store' = store)]_vars

\* the acceptance rule of the spec: the eight fields present, the five numbers parse and
\* lie in their ranges, the timestamp parses
MeetsRules(d) ==
    /\ Present(d)
    /\ Parses(d)
    /\ InClosed(ToFloat(d["latitude"]).val, -900000, 900000)
    /\ InClosed(ToFloat(d["longitude"]).val, -1800000, 1800000)
    /\ ToFloat(d["altitude"]).val.k = "num" /\ ToFloat(d["altitude"]).val.n >= 0
    /\ ToFloat(d["speed"]).val.k = "num" /\ ToFloat(d["speed"]).val.n >= 0
    /\ InClosed(ToFloat(d["heading"]).val, 0, 360)
    /\ ParseTimestamp(d["timestamp"]).exc = ""

\* C10: a report is accepted if and only if it meets the acceptance rule of the spec,
\* whatever its optional fields.
C10_AcceptsIffValid ==
    (req.op = "update" /\ resp.op = "update") =>
        ((resp.code = 200) <=> MeetsRules(req.data))

\* the field an error message names, "" when it names none
FieldNamedIn(msg) ==
    CASE msg = "Latitude must be between -90 and 90" -> "latitude"
      [] msg = "Longitude must be between -180 and 180" -> "longitude"
      [] msg = "Altitude must be positive" -> "altitude"
      [] msg = "Speed must be positive" -> "speed"
      [] msg = "Heading must be between 0 and 360" -> "heading"
      [] msg = "Invalid timestamp format. Use ISO format" -> "timestamp"
      [] OTHER -> ""

\* the fields of a body that break a validation rule
Offending(d) ==
    (required_fields \ DOMAIN d)
    \cup {numeric_fields[i] : i \in {j \in 1..5 : Has(d, numeric_fields[j]) /\ ToFloat(d[numeric_fields[j]]).exc # ""}}
    \cup {f \in {"latitude"} \cap DOMAIN d : ToFloat(d[f]).exc = "" /\ ~InClosed(ToFloat(d[f]).val, -900000, 900000)}
    \cup {f \in {"longitude"} \cap DOMAIN d : ToFloat(d[f]).exc = "" /\ ~InClosed(ToFloat(d[f]).val, -1800000, 1800000)}
    \cup {f \in {"heading"} \cap DOMAIN d : ToFloat(d[f]).exc = "" /\ ~InClosed(ToFloat(d[f]).val, 0, 360)}
    \cup {f \in {"altitude", "speed"} \cap DOMAIN d : ToFloat(d[f]).val.k = "num" /\ ToFloat(d[f]).val.n < 0}
    \cup {f \in {"timestamp"} \cap DOMAIN d : ParseTimestamp(d[f]).exc # ""}

Rejected == req.op = "update" /\ resp.op = "update" /\ resp.code = 400

\* C11 (as the spec states it): every validation rejection names an offending field.
C11_NamesField ==
    Rejected => FieldNamedIn(resp.error) \in Offending(req.data)

\* C11 (amended): a rejection for a value out of range or for a bad timestamp string names
\* an offending field; a rejection for a missing field or for a value that is no number
\* carries one fixed message that names no field.
C11_NamesRangeOrTimestamp ==
    Rejected =>
        IF ~Present(req.data)
        THEN resp.error = "Missing one or more required fields" /\ FieldNamedIn(resp.error) = ""
        ELSE IF ~Parses(req.data)
        THEN resp.error = "Invalid data types for numeric fields" /\ FieldNamedIn(resp.error) = ""
        ELSE FieldNamedIn(resp.error) \in Offending(req.data)

C11_SecondOfTwo ==
    /\ Rejected
    /\ Offending(req.data) = {"latitude", "heading"}
    /\ FieldNamedIn(resp.error) = "latitude"

\* a step that starts complete_flight: an idle archiving worker takes the request
ArchiveStarts ==
    /\ \E p \in Archivers : pc[p] = "idle"
    /\ \A q \in Reporters : pc'[q] = pc[q]
    /\ req'.op = "complete"

\* C12: complete_flight(id) for an id with no TrackPoint answers 404 and writes nothing,
\* also when a FlightState for id exists.
C12_NotFoundWritesNothing ==
    [][(ArchiveStarts /\ PointsOf(tracking, req'.flight_id) = {}) =>
          /\ resp' = Response("complete", 404, "No data for this flight", req'.flight_id, 0, 0)
          /\ store' = store
          /\ pc' = pc /\ local' = local]_vars

C12_StateWithoutPoints ==
    /\ req.op = "complete" /\ resp.op = "complete" /\ resp.code = 404
    /\ resp.flight_id = req.flight_id
    /\ State(req.flight_id) # Null
    /\ PointsOf(tracking, req.flight_id) = {}
    /\ \A p \in Procs : pc[p] = "idle"

\* C13: a report is applied whole or not at all: either it is answered 200 with its
\* TrackPoint appended and its FlightState written, or it is refused and the active
\* history and the active state are as before.
C13_AllOrNothing ==
    [][req'.op = "update" =>
          \/ /\ resp'.code = 200
             /\ Len(tracking') = Len(tracking) + 1
             /\ find_one(flights', req'.flight_id) # Null
          \/ /\ resp'.code # 200
             /\ tracking' = tracking
             /\ flights' = flights]_vars

\* a FlightState that the spec calls landed
Landed(f) ==
    \/ Get(f, "status") = Str("landed")
    \/ Get(f, "ready_for_completion") = True
    \/ (Has(f, "route_progress") /\ f["route_progress"].n >= 9500)

\* the flight_ids a sweep is to archive: landed, with at least one TrackPoint
ToArchive == {id \in ActiveIds : Landed(State(id)) /\ PointsOf(tracking, id) # {}}

\* a sweep in which no collection operation raises
SweepRuns == req'.op = "sweep" /\ req'.data = NoDoc

\* C14: a sweep archives exactly the landed flight_ids that have a TrackPoint, one log
\* entry each, leaves the FlightState and the TrackPoints of every other flight as they
\* were, and returns the number of log entries it created.
C14_ArchivesExactlyLanded ==
    [][SweepRuns =>
          /\ flights' = SelectSeq(flights, LAMBDA f : f["flight_id"] \notin ToArchive)
          /\ tracking' = SelectSeq(tracking, LAMBDA t : t["flight_id"] \notin ToArchive)
          /\ Len(logs') = Len(logs) + Cardinality(ToArchive)
          /\ SubSeq(logs', 1, Len(logs)) = logs
          /\ {logs'[i]["flight_id"] : i \in (Len(logs) + 1)..Len(logs')} = ToArchive
          /\ resp'.code = 200
          /\ resp'.n = Len(logs') - Len(logs)]_vars

C14_OneArchivedOneLeft ==
    /\ req.op = "sweep" /\ req.data = NoDoc /\ resp.op = "sweep" /\ resp.n = 1
    /\ logs[Len(logs)]["auto_completed"] = True
    /\ \E id \in ActiveIds :
           /\ id # logs[Len(logs)]["flight_id"]
           /\ ~Landed(State(id))
           /\ PointsOf(tracking, id) # {}

\* C15: when the archival of one selected flight fails during a sweep, every other
\* selected flight is archived and the sweep returns the number of flights archived.
C15_SweepGoesOn ==
    [][(req'.op = "sweep" /\ req'.data # NoDoc) =>
          LET others == ToArchive \ {req'.data["at"]}
          IN /\ \A id \in others :
                    /\ id \notin ActiveIds'
                    /\ PointsOf(tracking', id) = {}
                    /\ Cardinality(LogsOf(logs', id)) = Cardinality(LogsOf(logs, id)) + 1
             /\ resp'.code = 200
             /\ resp'.n = Cardinality(others)]_vars

\* a FlightState that is landed and has no TrackPoint
Stranded(id) == id \in ActiveIds /\ Landed(State(id)) /\ PointsOf(tracking, id) = {}

\* C16: a landed FlightState without TrackPoints is skipped by the sweep: no log entry for
\* it, its FlightState kept as it is, not counted, no error; it stays so through every
\* sweep, archive and query, until a report is posted.
C16_SkippedStaysActive ==
    [][\A id \in {Str(i) : i \in FlightIds} :
          (Stranded(id) /\ req'.op # "update") =>
              /\ find_one(flights', id) = State(id)
              /\ PointsOf(tracking', id) = {}
              /\ LogsOf(logs', id) = LogsOf(logs, id)
              /\ SweepRuns => (resp'.code = 200 /\ resp'.n = Len(logs') - Len(logs))]_vars

C16_SkippedBySweep ==
    /\ req.op = "sweep" /\ req.data = NoDoc /\ resp.op = "sweep" /\ resp.code = 200
    /\ \E id \in ActiveIds : Stranded(id)

\* the accepted reports of flight id stored before log entry i was written
AcceptedBefore(i) ==
    {a.oid : a \in {b \in accepted : b.flight_id = logs[i]["flight_id"] /\ b.oid < logs[i]["_id"].n}}

Ascending(path) == \A j \in 1..(Len(path) - 1) : path[j]["timestamp"].n <= path[j + 1]["timestamp"].n

\* C17: the first log entry of a flight_id that had n >= 1 accepted reports counts n
\* TrackPoints and its path is those n TrackPoints in ascending timestamp order.
C17_PathIsAcceptedReports ==
    \A i \in 1..Len(logs) :
        (AcceptedBefore(i) # {} /\ \A j \in 1..(i - 1) : logs[j]["flight_id"] # logs[i]["flight_id"]) =>
            /\ logs[i]["total_tracking_points"] = Cardinality(AcceptedBefore(i))
            /\ {logs[i]["path"][j]["_id"].n : j \in 1..Len(logs[i]["path"])} = AcceptedBefore(i)
            /\ Len(logs[i]["path"]) = Cardinality(AcceptedBefore(i))
            /\ Ascending(logs[i]["path"])

\* the timestamps of the TrackPoints of a path, in seconds
Stamps(path) == {path[j]["timestamp"].n : j \in 1..Len(path)}

Smallest(S) == CHOOSE x \in S : \A y \in S : x <= y

Largest(S) == CHOOSE x \in S : \A y \in S : x >= y

\* C18: in every log entry departure_time is the smallest and arrival_time the largest
\* timestamp of the path, and total_duration_minutes is the minutes between them rounded
\* to two decimals: 0 for a single TrackPoint, never negative.
C18_DurationSpansPath ==
    \A i \in 1..Len(logs) :
        LET ts == Stamps(logs[i]["path"])
        IN /\ logs[i]["departure_time"] = Dt(Smallest(ts))
           /\ logs[i]["arrival_time"] = Dt(Largest(ts))
           /\ logs[i]["total_duration_minutes"] = RoundDiv(100 * (Largest(ts) - Smallest(ts)), 60)
           /\ Len(logs[i]["path"]) = 1 => logs[i]["total_duration_minutes"] = 0
           /\ logs[i]["total_duration_minutes"] >= 0

C18_ReportedOutOfOrder ==
    \E i \in 1..Len(logs) :
        /\ Len(logs[i]["path"]) = 2
        /\ logs[i]["path"][1]["_id"].n > logs[i]["path"][2]["_id"].n
        /\ logs[i]["total_duration_minutes"] = 67

\* C19: update_flight never archives: it creates no log entry, removes no TrackPoint and
\* no FlightState; a flight it marks landed is still active with its whole history.
C19_MarksOnly ==
    [][req'.op = "update" =>
          /\ logs' = logs
          /\ SubSeq(tracking', 1, Len(tracking)) = tracking
          /\ \A i \in 1..Len(flights) : find_one(flights', flights[i]["flight_id"]) # Null
          /\ resp'.code = 200 => find_one(flights', req'.flight_id) # Null
          /\ (resp'.code = 200 /\ Get(find_one(flights', req'.flight_id), "status") = Str("landed")) =>
                 /\ PointsOf(tracking', req'.flight_id) = PointsOf(tracking, req'.flight_id) \cup {Len(tracking')}
                 /\ tracking'[Len(tracking')]["flight_id"] = req'.flight_id]_vars

C19_LandedStillActive ==
    /\ Applied
    /\ State(resp.flight_id)["status"] = Str("landed")
    /\ Get(State(resp.flight_id), "ready_for_completion") = True
    /\ Cardinality(PointsOf(tracking, resp.flight_id)) = 2
    /\ resp.flight_id \notin LoggedIds

\* C20: the completed-flight log is append-only: no report, archive, sweep or query removes
\* or changes an entry, also when the flight_id of an entry is reported and archived again.
C20_AppendOnly ==
    [][/\ Len(logs') >= Len(logs)
       /\ SubSeq(logs', 1, Len(logs)) = logs]_vars

C20_ArchivedAgainAndListed ==
    /\ req.op = "logs" /\ resp.op = "logs"
    /\ Len(logs) = 2
    /\ logs[1]["flight_id"] = logs[2]["flight_id"]
    /\ \A j \in 1..Len(logs[2]["path"]) : logs[2]["path"][j]["_id"].n > logs[1]["_id"].n

\* C21: when a sweep has dealt with a selected flight whose FlightState had reached
\* route_progress >= 95, that FlightState is no longer in the active set.
C21_SweptWhenCrossed ==
    [][\A p \in Archivers :
          (pc[p] \in {"ac_path", "ac_del_flight"} /\ local'[p] # local[p] /\ pc'[p] \in {"idle", "ac_path"}) =>
              LET flight == local[p].landed[1]
              IN (Has(flight, "route_progress") /\ flight["route_progress"].n >= 9500) =>
                     \A i \in 1..Len(flights') : flights'[i]["_id"] # flight["_id"]]_vars
\* the _id of the TrackPoints of id in the active history
PointIds(coll, id) == {coll[i]["_id"] : i \in PointsOf(coll, id)}

LocationAnswered ==
    /\ req.op = "location" /\ resp.op = "location"
    /\ req.data["timestamp"].k = "iso"

HistoryAnswered == req.op = "history" /\ resp.op = "history"

\* C23: /history for flight id answers with all TrackPoints of id in the active history,
\* by ascending timestamp and, for equal timestamps, in the order of insertion, and with
\* 404 exactly when id has none.
C23_SortedTiesByInsertion ==
    HistoryAnswered =>
        /\ (resp.code = 404) <=> (PointsOf(tracking, req.flight_id) = {})
        /\ resp.code \in {200, 404}
        /\ {resp.docs[i]["_id"].n : i \in 1..Len(resp.docs)} = {d.n : d \in PointIds(tracking, req.flight_id)}
        /\ Len(resp.docs) = Cardinality(PointsOf(tracking, req.flight_id))
        /\ \A a, b \in 1..Len(resp.docs) :
               a < b => \/ resp.docs[a]["timestamp"].n < resp.docs[b]["timestamp"].n
                        \/ /\ resp.docs[a]["timestamp"].n = resp.docs[b]["timestamp"].n
                           /\ resp.docs[a]["_id"].n < resp.docs[b]["_id"].n

\* C24: an accepted report whose source and destination are the same known airport gets
\* route_progress 100, status "landed" and ready_for_completion true, wherever it is.
C24_SameAirportLands ==
    (/\ Applied /\ CarriesRoute(req.data)
     /\ req.data["source"] = req.data["destination"]
     /\ req.data["source"].k = "str" /\ req.data["source"].s \in DOMAIN AIRPORTS) =>
        /\ State(resp.flight_id)["route_progress"] = Num(10000)
        /\ State(resp.flight_id)["status"] = Str("landed")
        /\ Get(State(resp.flight_id), "ready_for_completion") = True

C24_LandedFarAway ==
    /\ Applied /\ CarriesRoute(req.data)
    /\ req.data["source"] = Str("LAX") /\ req.data["destination"] = Str("LAX")
    /\ req.data["latitude"] = Num(AIRPORTS.JFK.lat)
    /\ req.data["status"] = Str("en-route")
    /\ nreports = 1
    /\ State(resp.flight_id)["status"] = Str("landed")

\* a report names a string that is no airport code
UnknownCode(d) ==
    \E f \in {"source", "destination"} \cap DOMAIN d : d[f].k = "str" /\ d[f].s \notin DOMAIN AIRPORTS

\* C25: a report whose source or destination is a string that is no airport code is
\* accepted, its FlightState gets route_progress 0, its status is the report's and the
\* report does not set ready_for_completion.
C25_UnknownCodeTolerated ==
    [][(req'.op = "update" /\ ~FailsValidation(req'.data) /\ UnknownCode(req'.data)) =>
          /\ resp'.code = 200
          /\ find_one(flights', req'.flight_id) # Null
          /\ Get(find_one(flights', req'.flight_id), "route_progress") = Num(0)
          /\ Get(find_one(flights', req'.flight_id), "status") = req'.data["status"]
          /\ Get(find_one(flights', req'.flight_id), "ready_for_completion")
                 = Get(State(req'.flight_id), "ready_for_completion")]_vars

\* the _id of the TrackPoints copied into log entry i
PathIds(i) == {logs[i]["path"][j]["_id"] : j \in 1..Len(logs[i]["path"])}

\* C26: no TrackPoint is copied into two log entries, also when two archivals of its
\* flight_id run at the same time.
C26_ArchivedOnce ==
    \A i, j \in 1..Len(logs) : i # j => PathIds(i) \cap PathIds(j) = {}

\* the TrackPoint of id that was appended last
LastAppended(id) == tracking[CHOOSE i \in PointsOf(tracking, id) : \A j \in PointsOf(tracking, id) : j <= i]

\* C27: while no update_flight is between its two writes, a flight_id has at most one
\* FlightState, and its position and last_updated are those of the TrackPoint appended last
\* for that flight_id.
C27_StateIsLastAppended ==
    (\A p \in Procs : pc[p] = "idle") =>
        \A id \in {Str(i) : i \in FlightIds} :
            /\ Cardinality({i \in 1..Len(flights) : flights[i]["flight_id"] = id}) <= 1
            /\ (id \in ActiveIds /\ PointsOf(tracking, id) # {}) =>
                   /\ \A f \in {"latitude", "longitude", "altitude", "speed", "heading"} :
                          State(id)[f] = LastAppended(id)[f]
                   /\ State(id)["last_updated"] = LastAppended(id)["timestamp"]

\* C28: with reports, archivals and sweeps applied one at a time, a flight_id has a FlightState
\* exactly when it has a TrackPoint, and no log entry holds a null flight_details.
C28_StateIffPoints ==
    /\ \A id \in {Str(i) : i \in FlightIds} : id \in ActiveIds <=> PointsOf(tracking, id) # {}
    /\ \A i \in 1..Len(logs) : logs[i]["flight_details"] # Null

RECURSIVE ArchivedPoints(_)
\* the sum of total_tracking_points over the first n log entries
ArchivedPoints(n) == IF n = 0 THEN 0 ELSE ArchivedPoints(n - 1) + logs[n]["total_tracking_points"]

StatsAnswered == req.op = "stats" /\ resp.op = "stats"

\* C29: the reports accepted so far are the TrackPoints of the history plus the
\* total_tracking_points of the log entries, and the statistics answer with the sizes of the
\* three collections.
C29_PointsConserved ==
    /\ Cardinality(accepted) = Len(tracking) + ArchivedPoints(Len(logs))
    /\ StatsAnswered =>
           /\ resp.code = 200
           /\ resp.docs = << [active_flights |-> Len(flights), completed_flights |-> Len(logs),
                              total_tracking_points |-> Len(tracking)] >>

\* the keys of a FlightState that the server derives
CallerKeys == {"route_progress", "ready_for_completion", "received_at"}

WithoutCallerKeys(data) == [f \in (DOMAIN data) \ CallerKeys |-> data[f]]

\* an accepted report of the flight of FlightState d, still in the history, that carried both
\* airport codes
RoutedReport(d, tr, acc) ==
    \E j \in 1..Len(tr) :
        /\ tr[j]["flight_id"] = d["flight_id"]
        /\ Has(tr[j], "source") /\ Has(tr[j], "destination")
        /\ [oid |-> tr[j]["_id"].n, flight_id |-> d["flight_id"]] \in acc

ProgressSound(fl, tr, acc) ==
    \A i \in 1..Len(fl) :
        Has(fl[i], "route_progress") =>
            /\ fl[i]["route_progress"].k = "num"
            /\ fl[i]["route_progress"].n >= 0 /\ fl[i]["route_progress"].n <= 10000
            /\ RoutedReport(fl[i], tr, acc)

\* C30: an accepted report writes the FlightState that the same report without
\* route_progress, ready_for_completion and received_at writes, with the server's clock as
\* received_at; a route_progress is within 0..100 percent and is there only if an accepted
\* report of the flight carried both source and destination.
C30_DerivedByServer ==
    [][/\ ProgressSound(flights', tracking', accepted')
       /\ (nreports' # nreports /\ resp'.code = 200) =>
              \E point \in {TrackPoint(Validate(WithoutCallerKeys(req'.data)).data, clock)} :
                  /\ flights' = update_one(flights, req'.flight_id, FlightUpdate(point).doc, nextId + 1)
                  /\ find_one(flights', req'.flight_id)["received_at"] = Dt(clock)]_vars

\* a report that carried route_progress 99 and ready_for_completion was accepted midway, and
\* the FlightState holds the computed progress and no ready_for_completion
C30_SpoofedIgnored ==
    /\ Applied
    /\ Get(req.data, "route_progress") = Num(9900) /\ Get(req.data, "ready_for_completion") = True
    /\ State(req.flight_id) # Null
    /\ Has(State(req.flight_id), "route_progress")
    /\ State(req.flight_id)["route_progress"].n < LandedThreshold
    /\ State(req.flight_id)["status"] = Str("en-route")
    /\ ~Has(State(req.flight_id), "ready_for_completion")
    /\ State(req.flight_id)["received_at"].k = "dt"

====
